---- MODULE Spec2Model ----
(***************************************************************************)
(* Lazy enrichment core of mmp2.0: the monthly quota trackers, the         *)
(* per-source rate limiters (asyncio.Semaphore + trailing sleep) and the   *)
(* source adapters of src/api/enrich*.py.                                  *)
(***************************************************************************)
EXTENDS Integers, Sequences, FiniteSets, TLC

\* ------------------------------------------------------------------ bounds
NumTasks == 2       \* concurrent adapter runs (background batches)
NumEntities == 2    \* canonical entity ids
MaxMonth == 1       \* calendar months after the first one
MaxRuns == 3        \* adapter runs started per behaviour
Headroom == 1       \* free-tier lookups left when a behaviour starts mid-month
MaxBgDone == 2      \* calls of other batches that end within a behaviour
MaxOver == 1        \* items a provider returns beyond a documented cap
NumNames == 2       \* distinct names / e-mail addresses of persons
MaxPasses == 2      \* enrichment passes triggered per behaviour

\* ------------------------------------------------- constants of the source
FREE_LIMIT_A_LEADS == 60000               \* enrich.py FREE_LIMITS["a_leads"]
FREE_LIMIT_DATA_AXLE == 6000              \* enrich.py FREE_LIMITS["data_axle"]
USAGE_ON_ERROR == 999999                  \* enrich.py get_monthly_usage, except
HIBP_FREE_TIER_MONTHLY_LIMIT == 500       \* enrich_breach.py
RELATIVES_FREE_TIER_MONTHLY_LIMIT == 60000 \* enrich_relatives.py
HIBP_CONCURRENCY == 1                     \* enrich_breach.py Semaphore(1)
SEC_CONCURRENCY == 10                     \* enrich_sec.py Semaphore(10)
RELATIVES_CONCURRENCY == 10               \* enrich_relatives.py Semaphore(10)
ODN_CONCURRENCY == 50                     \* enrich_vehicles.py Semaphore(50)

DOMAIN_CAP == 10                          \* enrich_domain.py list(domains)[:10]
FILING_LIMIT == 20                        \* enrich_sec.py
EMPLOYMENT_CAP == 20                      \* enrich_employment_deep.py cleaned[:20]
LICENSE_CAP == 50                         \* enrich_professional_licenses.py [:50]
BK_PAGE_SIZE == 3                         \* enrich.py enrich_bankruptcy page_size
FEDERAL_PAGE_SIZE == 50                   \* enrich_federal_cl.py params page_size

None == -1          \* Python None for the stored period key

Tasks == 1..NumTasks
Entities == 1..NumEntities
Months == 0..MaxMonth

\* Adapters whose runs are modelled step by step.
DbAdapters == {"contact", "firmographics"}
MemAdapters == {"relatives", "breach"}
LimitedAdapters == {"breach", "sec", "relatives", "vehicles"}
QuotaAdapters == DbAdapters \cup MemAdapters

\* The api_cost_log source name an enrich.py adapter is metered under.
SourceOf(d) == IF d = "contact" THEN "a_leads" ELSE "data_axle"
DbSources == {"a_leads", "data_axle"}

FREE_LIMITS ==
  [s \in DbSources |-> IF s = "a_leads" THEN FREE_LIMIT_A_LEADS ELSE FREE_LIMIT_DATA_AXLE]

FREE_TIER_MONTHLY_LIMIT ==
  [m \in MemAdapters |->
     IF m = "breach" THEN HIBP_FREE_TIER_MONTHLY_LIMIT ELSE RELATIVES_FREE_TIER_MONTHLY_LIMIT]

Concurrency ==
  [s \in LimitedAdapters |->
     CASE s = "breach" -> HIBP_CONCURRENCY
       [] s = "sec" -> SEC_CONCURRENCY
       [] s = "relatives" -> RELATIVES_CONCURRENCY
       [] OTHER -> ODN_CONCURRENCY]

\* What the provider does with one request: the kind of reply and, for a
\* well-formed 200, the number of items in its payload.
RespKinds == {"ok", "not_found", "error_status", "timeout", "malformed"}
QuotaResponses == [kind : RespKinds, n : {0}] \cup [kind : {"ok"}, n : {1}]

\* The replies to the requests of the rate-limited adapters: also a 200 whose
\* JSON parses but is not the object the adapter reads ("misshapen": a list
\* for a dict, an entry that is no dict).
FetchResponses == QuotaResponses \cup {[kind |-> "misshapen", n |-> 0]}

\* `await resp.json()` returned.
JsonParsed(r) == r.kind \in {"ok", "misshapen"}

\* CourtListener is asked for at most page_size dockets.
BkResponses == QuotaResponses \cup [kind : {"ok"}, n : 2..BK_PAGE_SIZE]

\* A call "completed successfully" when the provider answered 2xx with a
\* well-formed body (with or without results).
Succeeded(r) == r.kind = "ok"

VARIABLES
  now,            \* current calendar month (datetime.utcnow / CURRENT_DATE)
  dbUp,           \* psycopg2.connect(DSN) succeeds
  keys,           \* provider API keys that are configured (env)
  workload,       \* adapters the callers request in this behaviour
  api_cost_log,   \* [source -> [month -> SUM(lookups)]]
  store,          \* [db adapter -> entities that have the adapter's row]
  monthly_usage,  \* [mem adapter -> [count, month]]  (module global _monthly_usage)
  rate_limiter,   \* [limited adapter -> None | [value, waiters]] (_rate_limiter)
  bg,             \* [limited adapter -> permits held by calls of other batches]
  pc,             \* [task -> position in its adapter run]
  ad,             \* [task -> adapter it runs, "none" when idle]
  ent,            \* [task -> entity id of the run]
  use_paid,       \* [task -> use_paid_api of _fetch_breaches_hibp]
  res,            \* [task -> value the fetch returned / outcome of the run]
  nRuns,          \* adapter runs started so far
  owed,           \* history: [task -> successful calls of its run minus the
                  \*           usage increments the run recorded]
  invoked,        \* the adapter call last made: adapter, argument form, reply
  output,         \* what that call returned, or that it raised
  redisCfg,       \* REDIS_URL is set (cache.py: r is not None)
  redisUp,        \* the Redis server answers
  cache,          \* [cache key -> entry], NoValue when absent or expired
  client,         \* [task -> its run holds a redis client]
  ckey,           \* [task -> cache key of its run]
  val,            \* [task -> value its run computed or returned]
  req,            \* the triggering HTTP request (universal_search)
  bgq,            \* background tasks added by the request, not yet run
  batch,          \* the pass trigger_enrichments_async is running
  cases           \* the bankruptcy cases a run is storing: [n, log]

vars == <<now, dbUp, keys, workload, api_cost_log, store, monthly_usage, rate_limiter, bg,
          pc, ad, ent, use_paid, res, nRuns, owed,
          invoked, output,
          redisCfg, redisUp, cache, client, ckey, val, req, bgq, batch, cases>>

cacheVars == <<redisCfg, redisUp, cache, client, ckey, val>>
orchVars == <<req, bgq, batch>>
envVars == <<now, dbUp, keys, workload, cacheVars, orchVars>>
dbVars == <<api_cost_log, store>>
taskVars == <<pc, ad, ent, use_paid, res>>
histVars == <<owed>>
limVars == <<rate_limiter, bg>>
ioVars == <<invoked, output>>

NoEntity == None

\* Persons as the cached adapters see them: person_data id, name, e-mail
\* (an e-mail address per name; ids and names vary independently).
Names == 1..NumNames
Persons == {[id |-> i, name |-> n, email |-> n] : i \in Entities, n \in Names}

\* Users of the result cache: the four adapters with a Redis lookup, and a
\* function wrapped by cache_ttl.
CacheUsers == LimitedAdapters \cup {"report"}
CacheGroups == {"vehicles", "sec_filings", "relatives_deep", "breaches", "report"}
CacheKeys == CacheGroups \X (Entities \cup Names)
NoKey == <<"none", None>>
\* A cached or returned value is the enrichment result of one entity; it is
\* told apart by the id of the entity it was fetched for.
NoValue == [owner |-> NoEntity]

\* No cache in the picture: Redis not configured and not running.
CacheOff ==
  /\ redisCfg = FALSE
  /\ redisUp = FALSE
  /\ cache = [k \in CacheKeys |-> NoValue]
  /\ client = [t \in Tasks |-> FALSE]
  /\ ckey = [t \in Tasks |-> NoKey]
  /\ val = [t \in Tasks |-> NoValue]

\* Adapters trigger_enrichments_async dispatches, by entity type, and the
\* adapters the repository has for a person.
EntityTypes == {"person", "business", "other"}
OrchAdapters == DbAdapters \cup {"bankruptcy"}
PersonAdapters ==
  {"contact", "bankruptcy", "federal_cases", "sec", "breach", "domain", "vehicles",
   "evictions", "relatives", "professional_licenses", "education", "employment_deep"}

\* The request universal_search handled last: how far it got.
NoRequest == [stage |-> "none"]

\* One pass of trigger_enrichments_async: its arguments, the request that
\* whether it runs as the background task of a request, the coroutines it created, the fields the
\* entity had in storage when it began, what gather returned, how it ended, and
\* whether the pass before it had the same arguments, and whether the id has a
\* base record (person / business row) while its coroutines run.
NoBatch == [stage |-> "idle", type |-> "none", id |-> NoEntity, bg |-> FALSE, pass |-> 0,
            coros |-> {}, present |-> {}, results |-> {}, outcome |-> "none",
            again |-> FALSE, known |-> TRUE]

\* No request has arrived and no pass is running.
OrchOff ==
  /\ req = NoRequest
  /\ bgq = <<>>
  /\ batch = NoBatch

\* ------------------------------------------------------------ quota tracker

\* SELECT COALESCE(SUM(lookups),0) ... WHERE source=%s AND log_date >= month start
LoggedLookups(source) ==
  IF source \in DbSources THEN api_cost_log[source][now] ELSE 0

\* Fail-open variant: a failed lookup reads as "nothing used yet".
get_monthly_usage_failopen(source) ==
  IF dbUp THEN LoggedLookups(source) ELSE 0

\* enrich.py get_monthly_usage: the month's logged lookups, or the sentinel
\* when the connection or the query fails.
get_monthly_usage(source) ==
  IF dbUp THEN LoggedLookups(source) ELSE USAGE_ON_ERROR

\* FREE_LIMITS.get(source, 0)
FreeLimit(source) ==
  IF source \in DOMAIN FREE_LIMITS THEN FREE_LIMITS[source] ELSE 0

\* enrich.py can_enrich
can_enrich(source) == get_monthly_usage(source) < FreeLimit(source)

\* Variant that stores the new period key but forgets to zero the counter.
is_free_tier_available_noreset(mu, current_month, limit) ==
  LET rolled == [mu EXCEPT !.month = current_month]
  IN [usage |-> rolled, available |-> rolled.count < limit]

\* Variant with the rollover test inverted: resets while the month is unchanged.
is_free_tier_available_inverted(mu, current_month, limit) ==
  LET rolled == IF mu.month = current_month
                THEN [count |-> 0, month |-> current_month]
                ELSE [mu EXCEPT !.month = current_month]
  IN [usage |-> rolled, available |-> rolled.count < limit]

\* enrich_breach.py / enrich_relatives.py _is_free_tier_available: the counter
\* after the rollover test, and the answer.
is_free_tier_available(mu, current_month, limit) ==
  LET rolled == IF mu.month # current_month
                THEN [count |-> 0, month |-> current_month]
                ELSE mu
  IN [usage |-> rolled, available |-> rolled.count < limit]

\* Variant that marks the month as used instead of counting: every lookup
\* after the first of a month is lost.
increment_monthly_usage_mark(mu) == [mu EXCEPT !.count = IF @ = 0 THEN 1 ELSE @]

\* _increment_monthly_usage
increment_monthly_usage(mu) == [mu EXCEPT !.count = @ + 1]

\* ------------------------------------------------------------- rate limiter

NoLimiter == [value |-> None, waiters |-> <<>>]      \* _rate_limiter is None
Semaphore(n) == [value |-> n, waiters |-> <<>>]      \* asyncio.Semaphore(n)

\* get_rate_limiter: create the module's semaphore on first use.
get_rate_limiter(rl, s) ==
  IF rl[s] = NoLimiter THEN Semaphore(Concurrency[s]) ELSE rl[s]

\* Off-by-one variant: a caller is still let in when no permit is left.
Locked_offbyone(sem) == sem.value < 0 \/ sem.waiters # <<>>

\* asyncio.Semaphore.locked(): no permit left, or somebody queued before us.
Locked(sem) == sem.value = 0 \/ sem.waiters # <<>>

\* `async with limiter` entry: take a permit, or queue behind the waiters.
SemAcquire(sem, t) ==
  IF Locked(sem)
  THEN [sem |-> [sem EXCEPT !.waiters = Append(@, t)], admitted |-> FALSE]
  ELSE [sem |-> [sem EXCEPT !.value = @ - 1], admitted |-> TRUE]

\* Variant whose release never wakes a waiter.
SemRelease_nowake(sem) == [sem |-> [sem EXCEPT !.value = @ + 1], woken |-> {}]

\* `async with limiter` exit: the permit goes to the first waiter if there is
\* one (release() wakes it and it owns the permit), else back to the pool.
SemRelease(sem) ==
  IF sem.waiters # <<>>
  THEN [sem |-> [sem EXCEPT !.waiters = Tail(@)], woken |-> {Head(sem.waiters)}]
  ELSE [sem |-> [sem EXCEPT !.value = @ + 1], woken |-> {}]

\* Permit holders of a limiter among the modelled tasks.
Holding(t) == ad[t] \in LimitedAdapters /\ pc[t] \in {"call", "sleep"}
InFlight(s) == Cardinality({t \in Tasks : ad[t] = s /\ Holding(t)}) + bg[s]

\* What a fetch helper hands back for a provider reply.
FetchResult(a, r) ==
  CASE a = "relatives" ->
         (IF r.kind = "ok" THEN (IF r.n = 0 THEN "None" ELSE "list")
          ELSE IF r.kind = "not_found" THEN "empty" ELSE "None")
    [] a = "sec" ->
         (IF r.kind = "ok" THEN (IF r.n = 0 THEN "empty" ELSE "list")
          ELSE IF r.kind = "misshapen" THEN "empty" ELSE "None")
    [] OTHER ->   \* breach, vehicles: `... if isinstance(...) else []`
         (IF r.kind = "ok" THEN (IF r.n = 0 THEN "empty" ELSE "list")
          ELSE IF r.kind \in {"not_found", "misshapen"} THEN "empty" ELSE "None")

\* ------------------------------------------------------------------ actions

Finish(t, outcome) ==
  /\ pc' = [pc EXCEPT ![t] = "done"]
  /\ res' = [res EXCEPT ![t] = outcome]

Begin(t, a) ==
  /\ pc[t] = "idle"
  /\ a \in workload
  /\ nRuns < MaxRuns
  /\ nRuns' = nRuns + 1
  /\ ad' = [ad EXCEPT ![t] = a]

\* Variant with a retry loop around the request: a failed call is sent again.
DbFinish_retry(t, outcome) ==
  IF outcome = "call_failed"
  THEN /\ pc' = [pc EXCEPT ![t] = "call"]
       /\ res' = [res EXCEPT ![t] = outcome]
       /\ UNCHANGED ent
  ELSE /\ Finish(t, outcome)
       /\ ent' = [ent EXCEPT ![t] = NoEntity]

\* A run on an entity ends: its canon id goes out of scope with it.
DbFinish(t, outcome) ==
  /\ Finish(t, outcome)
  /\ ent' = [ent EXCEPT ![t] = NoEntity]

\* Entity ids are interchangeable: a caller names an entity that is in play
\* (stored, or in a run), or else the lowest id that is not.
InPlay(d, e) == e \in store[d] \/ \E u \in Tasks : ent[u] = e

\* An adapter that has ended returns to its caller before anything else
\* happens: the return touches nothing but the run's own locals.
Returned == \A t \in Tasks : pc[t] # "done"

\* Idle tasks are interchangeable: a new run takes the first of them.
FirstIdle(t) == \A u \in Tasks : u < t => pc[u] # "idle"

\* The callers of one adapter name entities up to the symmetry of their ids.
Named(d, e) == InPlay(d, e) \/ \A f \in Entities : f < e => InPlay(d, f)

\* Variant without the key guards: the request goes out with an empty key.
KeyMissing_unguarded(s) == FALSE

\* `if not A_LEADS_KEY:` / `if not DATA_AXLE_KEY:`
KeyMissing(s) == s \notin keys

\* Variant that takes a failed check for "not enriched yet" and goes on.
CheckFailed_ignored == FALSE

\* The already-in-DB check raises (psycopg2.connect or the query): the
\* adapter's first try block.
CheckFailed == ~dbUp

\* SELECT COUNT(*) ... WHERE <id> AND <source / signal type>: the field is
\* already populated.
AlreadyInDb_blind(d, e) == FALSE

AlreadyInDb(d, e) == e \in store[d]

\* enrich_person_contact / enrich_business_firmographics, up to the quota
\* check: the "already in DB" query on its own connection.
DbStart(t, d, e) ==
  /\ Begin(t, d)
  /\ IF CheckFailed THEN DbFinish(t, "db_error")
     ELSE IF AlreadyInDb(d, e) THEN DbFinish(t, "already")
     ELSE /\ pc' = [pc EXCEPT ![t] = "quota"]
          /\ ent' = [ent EXCEPT ![t] = e]
          /\ UNCHANGED res
  /\ UNCHANGED <<ioVars, cases, envVars, dbVars, monthly_usage, limVars, use_paid, histVars>>

\* can_enrich(source), then the API-key guard; past both the request is sent.
DbQuotaCheck(t) ==
  /\ pc[t] = "quota"
  /\ IF ~can_enrich(SourceOf(ad[t])) THEN DbFinish(t, "quota_denied")
     ELSE IF KeyMissing(SourceOf(ad[t])) THEN DbFinish(t, "no_key")
     ELSE pc' = [pc EXCEPT ![t] = "call"] /\ UNCHANGED <<res, ent>>
  /\ UNCHANGED <<ioVars, cases, envVars, dbVars, monthly_usage, limVars, ad, use_paid,
                 nRuns, histVars>>

\* The provider's reply to the POST: raise_for_status / json() / empty
\* results / the two INSERTs of one transaction (row, then api_cost_log).
DbResponse(t, r) ==
  /\ pc[t] = "call"
  /\ ad[t] \in DbAdapters
  /\ IF r.kind = "ok" /\ r.n > 0 /\ dbUp
     THEN /\ store' = [store EXCEPT ![ad[t]] = @ \cup {ent[t]}]
          /\ api_cost_log' = [api_cost_log EXCEPT ![SourceOf(ad[t])][now] = @ + 1]
          /\ owed' = [owed EXCEPT ![t] = @ + (IF Succeeded(r) THEN 1 ELSE 0) - 1]
          /\ DbFinish(t, "enriched")
     ELSE /\ UNCHANGED dbVars
          /\ owed' = [owed EXCEPT ![t] = @ + (IF Succeeded(r) THEN 1 ELSE 0)]
          /\ DbFinish(t, IF r.kind = "ok" /\ r.n = 0 THEN "no_results" ELSE "call_failed")
  /\ UNCHANGED <<ioVars, cases, envVars, monthly_usage, limVars, ad, use_paid, nRuns>>

\* get_rate_limiter() and the entry of `async with limiter`.
EnterLimiter(t, s) ==
  LET a == SemAcquire(get_rate_limiter(rate_limiter, s), t)
  IN /\ rate_limiter' = [rate_limiter EXCEPT ![s] = a.sem]
     /\ pc' = [pc EXCEPT ![t] = IF a.admitted THEN "call" ELSE "acquire"]
     /\ UNCHANGED res

\* enrich_relatives_deep up to the first suspension: key guard, free-tier
\* check (which may roll the counter over), limiter entry.
RelativesStart(t) ==
  /\ Begin(t, "relatives")
  /\ IF KeyMissing("a_leads")
     THEN Finish(t, "no_key") /\ UNCHANGED <<monthly_usage, rate_limiter>>
     ELSE LET chk == is_free_tier_available(monthly_usage["relatives"], now,
                                            FREE_TIER_MONTHLY_LIMIT["relatives"])
          IN /\ monthly_usage' = [monthly_usage EXCEPT !["relatives"] = chk.usage]
             /\ IF ~chk.available
                THEN Finish(t, "quota_denied") /\ UNCHANGED rate_limiter
                ELSE EnterLimiter(t, "relatives")
  /\ UNCHANGED <<ioVars, cases, envVars, dbVars, bg, ent, use_paid, histVars>>

\* enrich_breach_history from the free-tier check on: use_paid is the negated
\* answer, and _fetch_breaches_hibp is entered either way.
BreachStart(t) ==
  /\ Begin(t, "breach")
  /\ LET chk == is_free_tier_available(monthly_usage["breach"], now,
                                       FREE_TIER_MONTHLY_LIMIT["breach"])
     IN /\ monthly_usage' = [monthly_usage EXCEPT !["breach"] = chk.usage]
        /\ use_paid' = [use_paid EXCEPT ![t] = ~chk.available]
        /\ EnterLimiter(t, "breach")
  /\ UNCHANGED <<ioVars, cases, envVars, dbVars, bg, ent, histVars>>

\* _fetch_daily_index: limiter entry.
SecStart(t) ==
  /\ Begin(t, "sec")
  /\ EnterLimiter(t, "sec")
  /\ UNCHANGED <<ioVars, cases, envVars, dbVars, monthly_usage, bg, ent, use_paid, histVars>>

\* _fetch_vehicles_odn: the limiter is fetched (and created) first; without
\* both names the helper returns None before entering it.
VehiclesStart(t, named) ==
  /\ Begin(t, "vehicles")
  /\ IF named THEN EnterLimiter(t, "vehicles")
     ELSE /\ rate_limiter' = [rate_limiter EXCEPT
                                !["vehicles"] = get_rate_limiter(rate_limiter, "vehicles")]
          /\ Finish(t, "None")
  /\ UNCHANGED <<ioVars, cases, envVars, dbVars, monthly_usage, bg, ent, use_paid, histVars>>

\* The request inside the limiter settles (reply, timeout or exception); every
\* branch leaves through `finally: await asyncio.sleep(RATE_LIMIT_DELAY)`.
\* enrich_relatives_deep counts the lookup here, on a parsed 200.
\* ("unwind" stands for leaving the with-block without the sleep; no path of
\* the source does.)
AfterCall_nosleep(a, r) == IF r.kind \in {"timeout", "malformed"} THEN "unwind" ELSE "sleep"

AfterCall(a, r) == "sleep"

FetchResponse(t, r) ==
  /\ pc[t] = "call"
  /\ ad[t] \in LimitedAdapters
  /\ pc' = [pc EXCEPT ![t] = AfterCall(ad[t], r)]
  /\ res' = [res EXCEPT ![t] = FetchResult(ad[t], r)]
  /\ IF ad[t] = "relatives" /\ JsonParsed(r)
     THEN /\ monthly_usage' = [monthly_usage EXCEPT
                                 !["relatives"] = increment_monthly_usage(@)]
          /\ owed' = [owed EXCEPT ![t] = @ + (IF Succeeded(r) THEN 1 ELSE 0) - 1]
     ELSE /\ UNCHANGED monthly_usage
          /\ owed' = [owed EXCEPT ![t] = @ + (IF Succeeded(r) THEN 1 ELSE 0)]
  /\ UNCHANGED <<ioVars, cases, envVars, dbVars, limVars, ad, ent, use_paid, nRuns>>

\* The sleep is over and `async with` exits: the permit is released (handed to
\* the first waiter, who then sends its request).  What follows runs without
\* suspension: enrich_breach_history counts the lookup when the fetch did not
\* return None.
Counted(a, fetched) == a = "breach" /\ fetched # "None"

LeaveLimiter(t) ==
  /\ pc[t] \in {"sleep", "unwind"}
  /\ LET rel == SemRelease(rate_limiter[ad[t]])
     IN /\ rate_limiter' = [rate_limiter EXCEPT ![ad[t]] = rel.sem]
        /\ pc' = [u \in Tasks |-> IF u = t THEN "done"
                                  ELSE IF u \in rel.woken THEN "call" ELSE pc[u]]
  /\ IF Counted(ad[t], res[t])
     THEN /\ monthly_usage' = [monthly_usage EXCEPT
                                 !["breach"] = increment_monthly_usage(@)]
          /\ owed' = [owed EXCEPT ![t] = @ - 1]
     ELSE UNCHANGED <<monthly_usage, owed>>
  /\ UNCHANGED <<ioVars, cases, envVars, dbVars, bg, ad, ent, use_paid, res, nRuns>>

\* The adapter returned to its caller; the task is free for another run.
Return(t) ==
  /\ pc[t] = "done"
  /\ pc' = [pc EXCEPT ![t] = "idle"]
  /\ ad' = [ad EXCEPT ![t] = "none"]
  /\ use_paid' = [use_paid EXCEPT ![t] = FALSE]
  /\ res' = [res EXCEPT ![t] = "none"]
  /\ owed' = [owed EXCEPT ![t] = 0]
  /\ UNCHANGED <<ioVars, cases, envVars, dbVars, monthly_usage, limVars, ent, nRuns>>

\* A call of another batch, in flight since the behaviour began, ends and
\* releases its permit.
BgFinish(s) ==
  /\ bg[s] > 0
  /\ bg[s] + MaxBgDone > Concurrency[s]
  /\ bg' = [bg EXCEPT ![s] = @ - 1]
  /\ LET rel == SemRelease(rate_limiter[s])
     IN /\ rate_limiter' = [rate_limiter EXCEPT ![s] = rel.sem]
        /\ pc' = [u \in Tasks |-> IF u \in rel.woken THEN "call" ELSE pc[u]]
  /\ UNCHANGED <<ioVars, cases, envVars, dbVars, monthly_usage, ad, ent, use_paid, res, nRuns, histVars>>

\* The calendar month changes.
Tick ==
  /\ now < MaxMonth
  /\ now' = now + 1
  /\ UNCHANGED <<ioVars, cases, dbUp, keys, workload, cacheVars, orchVars, dbVars, monthly_usage, limVars, taskVars, nRuns, histVars>>

\* The database becomes unreachable, or reachable again.
DbToggle ==
  /\ dbUp' = ~dbUp
  /\ UNCHANGED <<ioVars, cases, now, keys, workload, cacheVars, orchVars, dbVars, monthly_usage, limVars, taskVars, nRuns, histVars>>

\* ----------------------------------------------------------- specifications

\* No run is in the loop over CourtListener's results.
NoCases == [n |-> 0, log |-> <<>>]

NoCall == [adapter |-> "none", arg_ok |-> TRUE,
           reply |-> [kind |-> "ok", n |-> 0, m |-> 0, items_ok |-> TRUE]]
NoOutput == [tag |-> "pending", items |-> <<>>]

TaskInit ==
  /\ invoked = NoCall
  /\ output = NoOutput
  /\ pc = [t \in Tasks |-> "idle"]
  /\ ad = [t \in Tasks |-> "none"]
  /\ ent = [t \in Tasks |-> NoEntity]
  /\ use_paid = [t \in Tasks |-> FALSE]
  /\ res = [t \in Tasks |-> "none"]
  /\ nRuns = 0
  /\ owed = [t \in Tasks |-> 0]
  /\ cases = NoCases

\* A fresh process, or one that has used all but Headroom lookups of month 0.
QuotaInit ==
  /\ now = 0
  /\ dbUp = TRUE
  /\ keys \in {{}, {"a_leads", "data_axle"}}
  /\ store = [d \in OrchAdapters |-> {}]
  /\ \/ /\ api_cost_log = [s \in DbSources |-> [m \in Months |-> 0]]
        /\ monthly_usage = [m \in MemAdapters |-> [count |-> 0, month |-> None]]
     \/ /\ api_cost_log = [s \in DbSources |->
                             [m \in Months |-> IF m = 0 THEN FREE_LIMITS[s] - Headroom ELSE 0]]
        /\ monthly_usage = [m \in MemAdapters |->
                              [count |-> FREE_TIER_MONTHLY_LIMIT[m] - Headroom, month |-> 0]]

\* The callers of a behaviour ask for one quota-tracked field.
Init ==
  /\ QuotaInit
  /\ workload \in {{a} : a \in QuotaAdapters}
  /\ TaskInit
  /\ CacheOff
  /\ OrchOff
  /\ rate_limiter = [s \in LimitedAdapters |-> NoLimiter]
  /\ bg = [s \in LimitedAdapters |-> 0]

Next ==
  \/ \E t \in Tasks, d \in DbAdapters, e \in Entities :
       Returned /\ FirstIdle(t) /\ Named(d, e) /\ DbStart(t, d, e)
  \/ \E t \in Tasks : Returned /\ DbQuotaCheck(t)
  \/ \E t \in Tasks, r \in QuotaResponses : Returned /\ DbResponse(t, r)
  \/ \E t \in Tasks : Returned /\ FirstIdle(t) /\ RelativesStart(t)
  \/ \E t \in Tasks : Returned /\ FirstIdle(t) /\ BreachStart(t)
  \/ \E t \in Tasks, r \in FetchResponses : Returned /\ FetchResponse(t, r)
  \/ \E t \in Tasks : Returned /\ LeaveLimiter(t)
  \/ \E t \in Tasks : Return(t)
  \/ Returned /\ Tick
  \/ Returned /\ DbToggle

Spec == Init /\ [][Next]_vars

\* A fresh process with its keys configured and nothing used or stored.
FreshInit ==
  /\ now = 0
  /\ dbUp = TRUE
  /\ keys = {"a_leads", "data_axle"}
  /\ store = [d \in OrchAdapters |-> {}]
  /\ api_cost_log = [s \in DbSources |-> [m \in Months |-> 0]]
  /\ monthly_usage = [m \in MemAdapters |-> [count |-> 0, month |-> None]]
  /\ TaskInit

\* The limiters seen on their own: the callers ask for one rate-limited field,
\* whose limiter either does not exist yet or is fully occupied by calls of
\* other batches that are in flight.
LimiterInit ==
  /\ FreshInit
  /\ CacheOff
  /\ OrchOff
  /\ \E f \in LimitedAdapters :
       /\ workload = {f}
       /\ \/ /\ rate_limiter = [s \in LimitedAdapters |-> NoLimiter]
             /\ bg = [s \in LimitedAdapters |-> 0]
          \/ /\ rate_limiter = [s \in LimitedAdapters |->
                                  IF s = f THEN Semaphore(0) ELSE NoLimiter]
             /\ bg = [s \in LimitedAdapters |-> IF s = f THEN Concurrency[s] ELSE 0]

NextLimiter ==
  \/ \E t \in Tasks : RelativesStart(t)
  \/ \E t \in Tasks : BreachStart(t)
  \/ \E t \in Tasks : SecStart(t)
  \/ \E t \in Tasks, named \in BOOLEAN : VehiclesStart(t, named)
  \/ \E t \in Tasks, r \in FetchResponses : FetchResponse(t, r)
  \/ \E t \in Tasks : LeaveLimiter(t)
  \/ \E t \in Tasks : Return(t)
  \/ \E s \in LimitedAdapters : BgFinish(s)

SpecLimiter == LimiterInit /\ [][NextLimiter]_vars

\* Every request settles (each carries its own timeout), every sleep ends, and
\* the event loop runs whatever is ready.
LimiterFairness ==
  /\ \A t \in Tasks : WF_vars(\E r \in FetchResponses : FetchResponse(t, r))
  /\ \A t \in Tasks : WF_vars(LeaveLimiter(t))
  /\ \A s \in LimitedAdapters : WF_vars(BgFinish(s))

SpecLimiterFair == SpecLimiter /\ LimiterFairness

\* ------------------------------------------------------- quota: properties

\* Usage of the current month as the tracker sees it.
MemLimit(m) == FREE_TIER_MONTHLY_LIMIT[m]
EffUsage(m) == IF monthly_usage[m].month = now THEN monthly_usage[m].count ELSE 0
UsageNow(a) == IF a \in DbAdapters THEN LoggedLookups(SourceOf(a)) ELSE EffUsage(a)
LimitOf(a) == IF a \in DbAdapters THEN FreeLimit(SourceOf(a)) ELSE MemLimit(a)

\* The step in which task t's run gets past its quota gate and goes on to the
\* provider (sends, or queues for the limiter).
DbAdmitted(t) == pc[t] = "quota" /\ pc'[t] = "call"
MemChecked(t, m) == pc[t] = "idle" /\ ad'[t] = m /\ res'[t] # "no_key"
MemAdmitted(t, m) == MemChecked(t, m) /\ pc'[t] \in {"call", "acquire"}

\* C1 (as claimed): for each of the four quota-tracked sources, a run goes on
\* to the provider only while the month's recorded usage is below the limit;
\* at or above the limit the run is turned away.
C1_QuotaEnforced ==
  [][\A t \in Tasks :
       /\ DbAdmitted(t) => UsageNow(ad[t]) < LimitOf(ad[t])
       /\ \A m \in MemAdapters : MemAdmitted(t, m) => EffUsage(m) < MemLimit(m)]_vars

\* The same statement for the three sources other than HIBP (holds).
QuotaEnforcedExceptBreach ==
  [][\A t \in Tasks :
       /\ DbAdmitted(t) => UsageNow(ad[t]) < LimitOf(ad[t])
       /\ MemAdmitted(t, "relatives") => EffUsage("relatives") < MemLimit("relatives")]_vars

\* C2: while the usage lookup fails, can_enrich is false for every source
\* (metered or unknown), and no run passes the quota check to the provider.
C2_FailClosed ==
  /\ [](~dbUp => \A s \in DbSources \cup {"hibp", "unknown"} : ~can_enrich(s))
  /\ [][\A t \in Tasks : DbAdmitted(t) => dbUp]_vars

\* A run was turned away although nothing had been logged: the lookup failed.
C2_Witness ==
  \E t \in Tasks :
    /\ pc[t] = "done" /\ res[t] = "quota_denied" /\ ad[t] \in DbAdapters
    /\ ~dbUp /\ now = 0
    /\ api_cost_log[SourceOf(ad[t])][0] = 0

\* C3 (as claimed): when a run of a quota-tracked adapter has ended, it has
\* recorded exactly one usage increment if its provider call completed
\* successfully, and none otherwise.
Settled(t) == ad[t] \in QuotaAdapters /\ pc[t] = "done"

C3_CountsSuccesses ==
  \A t \in Tasks : Settled(t) => owed[t] = 0

\* C4: an availability check that sees a month other than the stored period
\* key zeroes the counter and stores the new key before comparing; with the
\* month unchanged it leaves the counter as it is.  The answer is the
\* comparison of the resulting counter with the limit.
C4_Rollover ==
  [][\A t \in Tasks, m \in MemAdapters :
       MemChecked(t, m) =>
         /\ IF monthly_usage[m].month # now
            THEN monthly_usage'[m] = [count |-> 0, month |-> now]
            ELSE monthly_usage'[m] = monthly_usage[m]
         /\ LET available == monthly_usage'[m].count < MemLimit(m)
            IN IF m = "breach" THEN use_paid'[t] = ~available
               ELSE (pc'[t] \in {"call", "acquire"}) = available]_vars

\* A check in month 1 has rolled over a counter that month 0 had filled.
C4_Witness ==
  /\ now = 1
  /\ api_cost_log["a_leads"][0] >= FREE_LIMIT_A_LEADS - Headroom
  /\ monthly_usage["relatives"] = [count |-> 0, month |-> 1]
  /\ \E t \in Tasks : ad[t] = "relatives" /\ pc[t] = "call"

\* C5: within a calendar month the usage of a source never decreases: neither
\* the month's logged lookups, nor the in-memory count as long as its period
\* key stands, nor the usage the tracker attributes to the current month.
C5_Monotone ==
  [][/\ \A s \in DbSources, m \in Months : api_cost_log'[s][m] >= api_cost_log[s][m]
     /\ \A m \in MemAdapters :
          /\ monthly_usage'[m].month = monthly_usage[m].month
               => monthly_usage'[m].count >= monthly_usage[m].count
          /\ now' = now => IF monthly_usage'[m].month = now'
                           THEN monthly_usage'[m].count >= EffUsage(m)
                           ELSE EffUsage(m) = 0]_vars

\* The HIBP counter has grown to its limit inside month 0.
C5_Witness ==
  /\ now = 0
  /\ monthly_usage["breach"] = [count |-> HIBP_FREE_TIER_MONTHLY_LIMIT, month |-> 0]
  /\ \E t \in Tasks : ad[t] = "breach" /\ pc[t] = "done"

\* ------------------------------------------------ rate limiter: properties

\* C6: at no time are more calls in flight on a source than its limiter
\* admits (1 HIBP, 10 SEC EDGAR, 10 A-Leads family, 50 OpenDataNation).
C6_InFlightBounded ==
  \A s \in LimitedAdapters : InFlight(s) <= Concurrency[s]

\* The 50 permits of the vehicles limiter are all taken, one of them by a
\* modelled task, and another task is queued behind them.
C6_Witness ==
  /\ InFlight("vehicles") = ODN_CONCURRENCY
  /\ \E t, u \in Tasks : /\ ad[t] = "vehicles" /\ pc[t] = "call"
                         /\ ad[u] = "vehicles" /\ pc[u] = "acquire"

\* C7: whatever the outcome of the request, the run goes from the request
\* into the delay still holding its permit, and gives the permit up only when
\* the delay is over.
C7_DelayBeforeRelease ==
  [][\A t \in Tasks :
       /\ (pc[t] = "call" /\ pc'[t] # "call") => (pc'[t] = "sleep" /\ ad'[t] = ad[t])
       /\ (Holding(t) /\ ~Holding(t)') => pc[t] = "sleep"]_vars

\* A request that failed is sitting out the delay while another run of the
\* same source waits for the permit.
C7_Witness ==
  \E t, u \in Tasks :
    /\ pc[t] = "sleep" /\ res[t] = "None"
    /\ pc[u] = "acquire" /\ ad[u] = ad[t]

\* C8: a queued caller is never left behind a free permit, every permit taken
\* is given back, and every queued caller is admitted.
C8_NoDeadlock ==
  /\ [](\A s \in LimitedAdapters :
          rate_limiter[s].waiters # <<>> => rate_limiter[s].value = 0)
  /\ \A t \in Tasks : Holding(t) ~> ~Holding(t)
  /\ \A t \in Tasks : (pc[t] = "acquire") ~> (pc[t] = "call")

\* Two modelled runs contend for the single HIBP permit.
C8_Witness ==
  \E t, u \in Tasks :
    /\ ad[t] = "breach" /\ pc[t] = "sleep"
    /\ ad[u] = "breach" /\ pc[u] = "acquire"
    /\ bg["breach"] = 0

\* ----------------------------------------------------------- source adapters

\* Replies an adapter can meet.  n (and m, for a second list) count the items
\* of a well-formed 200 payload; items_ok is false when the items are objects
\* without the expected keys (a [] lookup fails, a .get() yields its default).
ReplySizes ==
  {0, 1} \cup {c + k : c \in {DOMAIN_CAP, FILING_LIMIT, EMPLOYMENT_CAP, FEDERAL_PAGE_SIZE},
                       k \in 0..MaxOver}
AdapterReplies ==
  [kind : {"ok"}, n : ReplySizes, m : {0, 1}, items_ok : BOOLEAN]
    \cup [kind : RespKinds \ {"ok"}, n : {0}, m : {0}, items_ok : {TRUE}]

Adapters == {"domain", "federal_cases", "evictions", "employment_deep",
             "relatives_deep", "vehicles", "breach_history", "sec_filings",
             "professional_licenses"}

Items(n) == [i \in 1..n |-> i]
Take(items, k) == SubSeq(items, 1, IF Len(items) < k THEN Len(items) ELSE k)   \* items[:k]

Raised == [tag |-> "raise", items |-> <<>>]
NoData == [tag |-> "none", items |-> <<>>]            \* None, or {} for the dict adapters
ListOf(items) == [tag |-> "list", items |-> items]

\* The unguarded aiohttp pattern shared by the simple adapters:
\*   async with session.get(...) as resp:   (a timeout raises)
\*       if resp.status != 200: return None
\*       data = await resp.json()           (a malformed body raises)
Unguarded(r, onData) ==
  IF r.kind = "timeout" THEN Raised
  ELSE IF r.kind = "malformed" THEN Raised
  ELSE IF r.kind # "ok" THEN NoData
  ELSE onData

\* enrich_domain(email)
enrich_domain(arg_ok, r) ==
  IF ~arg_ok THEN NoData
  ELSE Unguarded(r, ListOf(Take(Items(r.n), DOMAIN_CAP)))

\* enrich_federal_cases(person_name): c["docket_number"], c["court"]["short_name"]
enrich_federal_cases(arg_ok, r) ==
  Unguarded(r, IF r.n > 0 /\ ~r.items_ok THEN Raised ELSE ListOf(Items(r.n)))

\* enrich_evictions(person_name): d["filed_date"][:10]
enrich_evictions(arg_ok, r) ==
  Unguarded(r, IF r.n = 0 THEN NoData
               ELSE IF ~r.items_ok THEN Raised
               ELSE [tag |-> "dict", items |-> Items(r.n)])

\* enrich_employment_deep(person_name)
enrich_employment_deep(arg_ok, r) ==
  Unguarded(r, ListOf(Take(Items(r.n), EMPLOYMENT_CAP)))

\* enrich_relatives_deep(person_name), key configured and quota available:
\* family (n) then associates (m), every exception caught.
enrich_relatives_deep(arg_ok, r) ==
  IF r.kind = "ok"
  THEN IF r.n + r.m = 0 THEN NoData ELSE ListOf(Items(r.n) \o Items(r.m))
  ELSE IF r.kind = "not_found" THEN ListOf(<<>>)
  ELSE NoData

\* The guarded fetch helpers: 200 -> the list, 404 -> [], anything else None.
GuardedFetch(r) ==
  IF r.kind = "ok" THEN ListOf(Items(r.n))
  ELSE IF r.kind = "not_found" THEN ListOf(<<>>)
  ELSE NoData

\* Formatting loop (one record per item, read with .get()), then
\* `{key: out} if out else {}`.
Formatted(fetched) ==
  IF fetched.tag # "list" \/ fetched.items = <<>> THEN NoData
  ELSE ListOf([i \in 1..Len(fetched.items) |-> fetched.items[i]])

\* enrich_vehicles(person_data), no cache
enrich_vehicles(arg_ok, r) ==
  IF ~arg_ok THEN NoData ELSE Formatted(GuardedFetch(r))

\* enrich_breach_history(person_data), no cache
enrich_breach_history(arg_ok, r) ==
  IF ~arg_ok THEN NoData ELSE Formatted(GuardedFetch(r))

\* enrich_sec_filings(person_data), no cache: n matching entries in the index
\* (entries without a title are skipped), capped at FILING_LIMIT.
enrich_sec_filings(arg_ok, r) ==
  IF ~arg_ok \/ r.kind # "ok" THEN NoData
  ELSE LET filings == Take(IF r.items_ok THEN Items(r.n) ELSE <<>>, FILING_LIMIT)
       IN IF filings = <<>> THEN NoData ELSE ListOf(filings)

\* The names enrich_professional_licenses.py binds: its imports, its constant
\* and its function.  download_bulk_csv_once is not among them.
LicenseModuleNames ==
  {"aiohttp", "os", "csv", "io", "datetime", "Optional", "List", "BULK_SOURCES",
   "enrich_professional_licenses"}

\* enrich_professional_licenses(person_name) over bulk files holding r.n rows
\* that match: the first turn of the loop over BULK_SOURCES looks up
\* download_bulk_csv_once, a NameError when the module does not bind it; with
\* the files read, the matches are sliced to the cap.
enrich_professional_licenses(arg_ok, r) ==
  IF "download_bulk_csv_once" \notin LicenseModuleNames THEN Raised
  ELSE IF r.kind # "ok" \/ ~r.items_ok THEN Raised
  ELSE ListOf(Take(Items(r.n), LICENSE_CAP))

AdapterOutput(a, arg_ok, r) ==
  CASE a = "domain" -> enrich_domain(arg_ok, r)
    [] a = "federal_cases" -> enrich_federal_cases(arg_ok, r)
    [] a = "evictions" -> enrich_evictions(arg_ok, r)
    [] a = "employment_deep" -> enrich_employment_deep(arg_ok, r)
    [] a = "relatives_deep" -> enrich_relatives_deep(arg_ok, r)
    [] a = "vehicles" -> enrich_vehicles(arg_ok, r)
    [] a = "breach_history" -> enrich_breach_history(arg_ok, r)
    [] a = "professional_licenses" -> enrich_professional_licenses(arg_ok, r)
    [] OTHER -> enrich_sec_filings(arg_ok, r)

\* One adapter call against one reply of its provider.
Invoke(a, arg_ok, r) ==
  /\ invoked' = [adapter |-> a, arg_ok |-> arg_ok, reply |-> r]
  /\ output' = AdapterOutput(a, arg_ok, r)
  /\ UNCHANGED <<cases, envVars, dbVars, monthly_usage, limVars, taskVars, nRuns, histVars>>

\* Adapter calls are made one at a time, outside any batch.
AdapterInit ==
  /\ FreshInit
  /\ CacheOff
  /\ OrchOff
  /\ workload = {}
  /\ rate_limiter = [s \in LimitedAdapters |-> NoLimiter]
  /\ bg = [s \in LimitedAdapters |-> 0]

NextAdapter ==
  \E a \in Adapters, arg_ok \in BOOLEAN, r \in AdapterReplies : Invoke(a, arg_ok, r)

SpecAdapter == AdapterInit /\ [][NextAdapter]_vars

\* --------------------------------------------------- adapters: properties

\* C9 (as claimed): no adapter call ends by raising; on a timeout, a non-2xx
\* status or a malformed payload it returns its "no data" value.
C9_FailsSafely ==
  /\ output.tag # "raise"
  /\ (invoked.adapter # "none" /\ invoked.reply.kind \in {"timeout", "error_status", "malformed"})
       => output.tag = "none"

\* The length an adapter's list is documented to stay within: its own slice
\* where it has one, the page size it asks for, else the spec's largest cap.
ListCap(a) ==
  CASE a = "domain" -> DOMAIN_CAP
    [] a = "sec_filings" -> FILING_LIMIT
    [] a = "employment_deep" -> EMPLOYMENT_CAP
    [] OTHER -> FEDERAL_PAGE_SIZE

\* C10 (as claimed): a returned list is never longer than the adapter's cap.
C10_Capped ==
  output.tag = "list" => Len(output.items) <= ListCap(invoked.adapter)

\* The adapters that do slice their result keep to their cap (holds).
CappedWhereSliced ==
  (output.tag = "list" /\ invoked.adapter \in {"domain", "sec_filings", "employment_deep"})
    => Len(output.items) <= ListCap(invoked.adapter)

\* ------------------------------------------------------------ result cache

\* The key a run looks up: f"vehicles:{id}", f"sec_filings:{name}",
\* f"relatives_deep:{name}", f"breaches:{email}", and cache_key(func, args)
\* for the wrapped report (its argument is the canon id).
cache_key(a, p) ==
  CASE a = "vehicles" -> <<"vehicles", p.id>>
    [] a = "sec" -> <<"sec_filings", p.name>>
    [] a = "relatives" -> <<"relatives_deep", p.name>>
    [] a = "breach" -> <<"breaches", p.email>>
    [] OTHER -> <<"report", p.id>>

\* _get_redis_client: from_url and ping, None on any exception.  cache.py
\* builds its client at import without connecting: r is set iff REDIS_URL is.
get_redis_client(a) == IF a = "report" THEN redisCfg ELSE redisUp

\* Variant that never takes the cached value.
CacheHit_never(entry) == FALSE

\* `if cached:` / `if hit:` on what get returned.
CacheHit(entry) == entry # NoValue

\* What an exception of the Redis client does to the run: the adapters catch
\* it and go on, the cache_ttl wrapper has no handler.
OnRedisError(a, next) == IF a = "report" THEN "raise" ELSE next

\* A cached run ends: its locals (id, key, client) go out of scope, its
\* outcome and value go to the caller.
CacheFinish(t, outcome) ==
  /\ pc' = [pc EXCEPT ![t] = "done"]
  /\ res' = [res EXCEPT ![t] = outcome]
  /\ ent' = [ent EXCEPT ![t] = NoEntity]
  /\ ckey' = [ckey EXCEPT ![t] = NoKey]
  /\ client' = [client EXCEPT ![t] = FALSE]

\* The run goes on to its next step.
CacheGoto(t, next) ==
  /\ pc' = [pc EXCEPT ![t] = next]
  /\ UNCHANGED <<res, ent, ckey, client>>

\* Variant with the free-tier check ahead of the lookup: the check rolls the
\* counter over before the run knows whether it will fetch.
UsageAtLookup_checked(a) ==
  IF a \in MemAdapters
  THEN [monthly_usage EXCEPT
          ![a] = is_free_tier_available(@, now, FREE_TIER_MONTHLY_LIMIT[a]).usage]
  ELSE monthly_usage

\* The free-tier counters when the run gets to its lookup: the check
\* (`use_paid = not _is_free_tier_available()`, enrich_relatives_deep) stands
\* after the lookup, so nothing has read or rolled them over.
UsageAtLookup(a) == monthly_usage

\* The run up to its cache lookup: the client and the key.
CacheBegin(t, a, p) ==
  /\ Begin(t, a)
  /\ ent' = [ent EXCEPT ![t] = p.id]
  /\ ckey' = [ckey EXCEPT ![t] = cache_key(a, p)]
  /\ client' = [client EXCEPT ![t] = get_redis_client(a)]
  /\ pc' = [pc EXCEPT ![t] = IF get_redis_client(a) THEN "cache_get" ELSE "work"]
  /\ monthly_usage' = UsageAtLookup(a)
  /\ UNCHANGED <<ioVars, cases, now, dbUp, keys, workload, redisCfg, redisUp, cache, val,
                 orchVars, dbVars, limVars, use_paid, res, histVars>>

\* redis get(key): a hit returns the decoded entry; a miss or (in the
\* adapters) an exception goes on to the underlying work.
CacheGet(t) ==
  /\ pc[t] = "cache_get"
  /\ IF ~redisUp
     THEN IF OnRedisError(ad[t], "work") = "raise"
          THEN CacheFinish(t, "raise") /\ UNCHANGED val
          ELSE CacheGoto(t, "work") /\ UNCHANGED val
     ELSE IF CacheHit(cache[ckey[t]])
          THEN CacheFinish(t, "cached") /\ val' = [val EXCEPT ![t] = cache[ckey[t]]]
          ELSE CacheGoto(t, "work") /\ UNCHANGED val
  /\ UNCHANGED <<ioVars, cases, now, dbUp, keys, workload, redisCfg, redisUp, cache,
                 orchVars, dbVars, monthly_usage, limVars, ad, use_paid, nRuns, histVars>>

\* What the underlying work hands back: the wrapped function its report, the
\* adapter what its fetch helper returns (enrich_relatives_deep returns None
\* before any request without a key or without free-tier quota).
Fetched(a, admitted, r) ==
  IF a = "report" THEN "list"
  ELSE IF a = "relatives" /\ ~admitted THEN "None"
  ELSE FetchResult(a, r)

\* The replies a fetch helper logs as an error before it returns None: a
\* status other than 200 / 404, a timeout, any other exception.
FetchErrors == {"error_status", "timeout", "malformed", "misshapen"}

\* The free-tier counter of a run's adapter after its fetch.
UsageAfterFetch(a, r) ==
  LET chk == is_free_tier_available(monthly_usage[a], now, FREE_TIER_MONTHLY_LIMIT[a])
  IN CASE a = "relatives" /\ "a_leads" \notin keys -> monthly_usage[a]
       [] a = "relatives" /\ chk.available /\ JsonParsed(r) ->
            increment_monthly_usage(chk.usage)
       [] a = "breach" /\ Counted(a, FetchResult(a, r)) ->
            increment_monthly_usage(chk.usage)
       [] OTHER -> chk.usage

\* The underlying work of a run that did not hit, start to end: the fetch
\* through the adapter's limiter with its free-tier bookkeeping, or the
\* wrapped function.  A non-empty result goes on to be cached when the run
\* holds a client (`if redis_client and formatted:`); an empty one is returned
\* as {} like a failed fetch.
CacheWork(t, r) ==
  /\ pc[t] = "work"
  /\ LET a == ad[t]
         admitted ==
           a = "relatives" =>
             /\ "a_leads" \in keys
             /\ is_free_tier_available(monthly_usage[a], now,
                                       FREE_TIER_MONTHLY_LIMIT[a]).available
         fetched == Fetched(a, admitted, r)
     IN /\ monthly_usage' =
             IF a \in MemAdapters
             THEN [monthly_usage EXCEPT ![a] = UsageAfterFetch(a, r)]
             ELSE monthly_usage
        /\ rate_limiter' =
             IF a \in LimitedAdapters /\ admitted
             THEN [rate_limiter EXCEPT ![a] = get_rate_limiter(rate_limiter, a)]
             ELSE rate_limiter
        /\ IF fetched = "list"
           THEN /\ val' = [val EXCEPT ![t] = [owner |-> ent[t]]]
                /\ IF client[t]
                   THEN CacheGoto(t, "cache_set")
                   ELSE CacheFinish(t, "fetched")
           ELSE /\ CacheFinish(t, IF fetched = "empty" THEN "empty"
                                  ELSE IF admitted /\ r.kind \in FetchErrors
                                       THEN "fetch_error"
                                       ELSE "nodata")
                /\ UNCHANGED val
  /\ UNCHANGED <<ioVars, cases, now, dbUp, keys, workload, redisCfg, redisUp, cache,
                 orchVars, dbVars, bg, ad, use_paid, nRuns, histVars>>

\* What the underlying work returns: the adapters a list of plain dicts, the
\* functions under cache_ttl (person_clear_report, business_clear_report) a
\* pydantic model.
ResultShape(a) == IF a = "report" THEN "BaseModel" ELSE "list"

\* json.dumps(value): text for lists, dicts and scalars; TypeError ("Object of
\* type ... is not JSON serializable") for any other object.
json_dumps(shape) == IF shape \in {"list", "dict", "scalar"} THEN "text" ELSE "TypeError"

\* setex(key, ttl, json.dumps(value)): the argument is evaluated first, and
\* its TypeError leaves the wrapper like an error of the client does; then
\* redis setex, and the run returns its value.
CacheSet(t) ==
  /\ pc[t] = "cache_set"
  /\ IF json_dumps(ResultShape(ad[t])) = "TypeError"
     THEN UNCHANGED cache /\ CacheFinish(t, OnRedisError(ad[t], "fetched"))
     ELSE IF redisUp
     THEN cache' = [cache EXCEPT ![ckey[t]] = val[t]] /\ CacheFinish(t, "fetched")
     ELSE UNCHANGED cache /\ CacheFinish(t, OnRedisError(ad[t], "fetched"))
  /\ UNCHANGED <<ioVars, cases, now, dbUp, keys, workload, redisCfg, redisUp, val,
                 orchVars, dbVars, monthly_usage, limVars, ad, use_paid, nRuns, histVars>>

\* The run's caller has its result; the task is free for another run.
CacheReturn(t) ==
  /\ pc[t] = "done"
  /\ pc' = [pc EXCEPT ![t] = "idle"]
  /\ ad' = [ad EXCEPT ![t] = "none"]
  /\ res' = [res EXCEPT ![t] = "none"]
  /\ val' = [val EXCEPT ![t] = NoValue]
  /\ UNCHANGED <<ioVars, cases, now, dbUp, keys, workload, redisCfg, redisUp, cache, client, ckey,
                 orchVars, dbVars, monthly_usage, limVars, ent, use_paid, nRuns, histVars>>

\* An entry's TTL runs out.
Expire(k) ==
  /\ cache[k] # NoValue
  /\ cache' = [cache EXCEPT ![k] = NoValue]
  /\ UNCHANGED <<ioVars, cases, now, dbUp, keys, workload, redisCfg, redisUp, client, ckey, val,
                 orchVars, dbVars, monthly_usage, limVars, taskVars, nRuns, histVars>>

\* The Redis server becomes unreachable, or reachable again.
RedisToggle ==
  /\ redisUp' = ~redisUp
  /\ UNCHANGED <<ioVars, cases, now, dbUp, keys, workload, redisCfg, cache, client, ckey, val,
                 orchVars, dbVars, monthly_usage, limVars, taskVars, nRuns, histVars>>

\* A fresh process whose callers ask for one cached field; Redis running or
\* not, and empty; REDIS_URL set or not where the caller reads it (cache.py).
CacheInit ==
  /\ FreshInit
  /\ OrchOff
  /\ workload \in {{a} : a \in CacheUsers}
  /\ rate_limiter = [s \in LimitedAdapters |-> NoLimiter]
  /\ bg = [s \in LimitedAdapters |-> 0]
  /\ redisCfg \in (IF workload = {"report"} THEN BOOLEAN ELSE {FALSE})
  /\ redisUp \in BOOLEAN
  /\ cache = [k \in CacheKeys |-> NoValue]
  /\ client = [t \in Tasks |-> FALSE]
  /\ ckey = [t \in Tasks |-> NoKey]
  /\ val = [t \in Tasks |-> NoValue]

\* The cache protocol is followed one run at a time.
CacheCallers == {1}

NextCache ==
  \/ \E t \in CacheCallers, a \in CacheUsers, p \in Persons : CacheBegin(t, a, p)
  \/ \E t \in CacheCallers : CacheGet(t)
  \/ \E t \in CacheCallers, r \in FetchResponses : CacheWork(t, r)
  \/ \E t \in CacheCallers : CacheSet(t)
  \/ \E t \in CacheCallers : CacheReturn(t)
  \/ \E k \in CacheKeys : Expire(k)
  \/ RedisToggle

SpecCache == CacheInit /\ [][NextCache]_vars

\* ------------------------------------------------ result cache: properties

\* C11 (as claimed): no user of the cache ends by raising, whatever state the
\* backend is in: unconfigured, unreachable, or failing during get or set.
C11_CacheFailsSoft ==
  \A t \in Tasks : pc[t] = "done" => res[t] # "raise"

\* The same statement for the four adapters alone (holds).
AdaptersCacheFailSoft ==
  \A t \in Tasks : pc[t] = "done" /\ ad[t] \in LimitedAdapters => res[t] # "raise"

\* The cache serves the user: configured where that is asked, and reachable.
Available(a) == redisUp /\ (a = "report" => redisCfg)

\* The step in which task t's run leaves its cache lookup.
Looked(t) == pc[t] = "cache_get" /\ pc'[t] # "cache_get"

\* C12: a lookup that finds a present, unexpired entry ends the run with
\* exactly that entry as its value, with no limiter created or entered and no
\* usage counted; and a run commits to the underlying work only when the
\* cache did not serve it or held no entry for its key.
C12_CachePrecedence ==
  [][\A t \in Tasks :
       /\ Looked(t) /\ Available(ad[t]) /\ cache[ckey[t]] # NoValue
            => /\ pc'[t] = "done" /\ res'[t] = "cached"
               /\ val'[t] = cache[ckey[t]]
               /\ UNCHANGED <<rate_limiter, monthly_usage, cache>>
       /\ pc[t] # "work" /\ pc'[t] = "work"
            => ~Available(ad'[t]) \/ cache[ckey'[t]] = NoValue]_vars

\* A run has returned a cached value while the entry is still in the cache.
C12_Witness ==
  \E t \in Tasks, k \in CacheKeys :
    /\ pc[t] = "done" /\ res[t] = "cached"
    /\ val[t] # NoValue /\ cache[k] = val[t]

\* C13 (as claimed): a run that returns a cached value returns one that was
\* cached by a run for the same entity id.
C13_KeyedByEntity ==
  [][\A t \in Tasks :
       Looked(t) /\ res'[t] = "cached" => val'[t].owner = ent[t]]_vars

\* The same statement for the two users whose key is the id (holds).
KeyedByEntityWhereById ==
  [][\A t \in Tasks :
       Looked(t) /\ res'[t] = "cached" /\ ad[t] \in {"vehicles", "report"}
         => val'[t].owner = ent[t]]_vars

\* ------------------------------------------------------------- orchestrator

\* Variant without the test of entity_type: the person's list for every type.
Dispatch_untyped(type) == {"contact", "bankruptcy"}

\* The coroutines trigger_enrichments_async creates for an entity type.
Dispatch(type) ==
  CASE type = "person" -> {"contact", "bankruptcy"}
    [] type = "business" -> {"firmographics"}
    [] OTHER -> {}

\* The position of an adapter's coroutine in the list handed to gather.
CoTask(d) == IF d = "bankruptcy" THEN 2 ELSE 1

\* enrich_bankruptcy up to its request: the "already in DB" query. It has no
\* quota check and needs no key.
BkStart(t, e) ==
  /\ Begin(t, "bankruptcy")
  /\ IF CheckFailed THEN DbFinish(t, "db_error")
     ELSE IF AlreadyInDb("bankruptcy", e) THEN DbFinish(t, "already")
     ELSE /\ pc' = [pc EXCEPT ![t] = "call"]
          /\ ent' = [ent EXCEPT ![t] = e]
          /\ UNCHANGED res
  /\ UNCHANGED <<ioVars, cases, envVars, dbVars, monthly_usage, limVars, use_paid, histVars>>

\* CourtListener's reply: raise_for_status / json(); the results, at most
\* page_size of them, go to the loop that stores them.
BkResponse(t, r) ==
  /\ pc[t] = "call"
  /\ ad[t] = "bankruptcy"
  /\ IF r.kind = "ok" /\ r.n > 0
     THEN /\ pc' = [pc EXCEPT ![t] = "insert"]
          /\ cases' = [n |-> r.n, log |-> <<>>]
          /\ UNCHANGED <<res, ent>>
     ELSE /\ DbFinish(t, IF r.kind = "ok" THEN "no_results" ELSE "call_failed")
          /\ UNCHANGED cases
  /\ UNCHANGED <<ioVars, envVars, dbVars, monthly_usage, limVars, ad, use_paid,
                 nRuns, histVars>>

\* Variant with one try around the whole loop: the first failure ends it.
InsertsLeft_abort(n, log) ==
  IF log # <<>> /\ log[Len(log)] = "fail" THEN 0 ELSE n - Len(log)

\* `for case in results:` with the INSERT of each case in its own try.
InsertsLeft(n, log) == n - Len(log)

\* One turn of the loop: the INSERT of the next case on a connection of its
\* own; a failure is printed and the loop goes on.  Nothing is written to
\* api_cost_log.
BkInsert(t) ==
  /\ pc[t] = "insert"
  /\ LET log == Append(cases.log, IF dbUp THEN "ok" ELSE "fail")
     IN /\ store' = IF dbUp THEN [store EXCEPT !["bankruptcy"] = @ \cup {ent[t]}]
                    ELSE store
        /\ IF InsertsLeft(cases.n, log) > 0
           THEN /\ cases' = [cases EXCEPT !.log = log]
                /\ UNCHANGED <<pc, res, ent>>
           ELSE /\ cases' = NoCases
                /\ DbFinish(t, IF \E i \in 1..Len(log) : log[i] = "ok"
                               THEN "enriched" ELSE "call_failed")
  /\ UNCHANGED <<ioVars, envVars, api_cost_log, monthly_usage, limVars, ad, use_paid,
                 nRuns, histVars>>

\* `async with httpx.AsyncClient(...)` stands outside the adapter's try: an
\* error in building the client leaves the coroutine as an exception.
AdapterRaise(t) ==
  /\ pc[t] = "call"
  /\ ad[t] \in OrchAdapters
  /\ DbFinish(t, "raise")
  /\ UNCHANGED <<ioVars, cases, envVars, dbVars, monthly_usage, limVars, ad, use_paid,
                 nRuns, histVars>>

\* Entity ids are interchangeable: a caller asks about an entity the process
\* has met, or else about the lowest id it has not.
Met(e) ==
  \/ \E d \in OrchAdapters : e \in store[d]
  \/ batch.id = e
  \/ \E i \in 1..Len(bgq) : bgq[i].id = e
Asked(e) == Met(e) \/ \A f \in Entities : f < e => Met(f)

\* universal_search, one search at a time and arriving between passes: the
\* entity is looked up at Data Axle and located or created; when found, the
\* pass is added to the background tasks and the response is built; otherwise
\* the request ends with an HTTP error.
Request(type, e, found) ==
  /\ req.stage # "scheduled"
  /\ bgq = <<>>
  /\ Asked(e)
  /\ Dispatch(type) \subseteq workload
  /\ batch.stage # "gathering"
  /\ req' = [stage |-> IF found THEN "scheduled" ELSE "failed"]
  /\ bgq' = IF found THEN Append(bgq, [type |-> type, id |-> e]) ELSE bgq
  /\ UNCHANGED <<ioVars, cases, now, dbUp, keys, workload, cacheVars, batch, dbVars,
                 monthly_usage, limVars, taskVars, nRuns, histVars>>

\* The response goes out to the caller of universal_search.
Respond ==
  /\ req.stage = "scheduled"
  /\ req' = [req EXCEPT !.stage = "responded"]
  /\ UNCHANGED <<ioVars, cases, now, dbUp, keys, workload, cacheVars, bgq, batch, dbVars,
                 monthly_usage, limVars, taskVars, nRuns, histVars>>

\* BackgroundTasks.add_task: the task runs once the response it belongs to has
\* been sent.
MayRun_inline(entry) == TRUE

MayRun(entry) == req.stage = "responded"

\* The `except Exception` around the body of trigger_enrichments_async.
OnTriggerError_unguarded(exc) == "propagated"

OnTriggerError(exc) == "caught"

\* trigger_enrichments_async from its entry to gather: the coroutines are
\* created from entity_data, an unknown type returns at once.
TriggerStart(type, e, data_ok, background, known) ==
  /\ batch.stage # "gathering"
  /\ batch.pass < MaxPasses
  /\ Dispatch(type) \subseteq workload
  /\ LET begun == [NoBatch EXCEPT !.type = type, !.id = e, !.bg = background,
                                  !.pass = batch.pass + 1,
                                  !.present = {d \in OrchAdapters : e \in store[d]},
                                  !.again = (batch.type = type /\ batch.id = e)]
     IN batch' =
          IF Dispatch(type) = {}
          THEN [begun EXCEPT !.stage = "returned", !.outcome = "ok"]
          ELSE IF ~data_ok
          THEN [begun EXCEPT !.stage = "returned",
                             !.outcome = OnTriggerError("AttributeError")]
          ELSE [begun EXCEPT !.stage = "gathering", !.coros = Dispatch(type),
                             !.known = known]
  /\ nRuns' = 0
  /\ UNCHANGED <<ioVars, cases, now, dbUp, keys, workload, cacheVars, req, dbVars,
                 monthly_usage, limVars, taskVars, histVars>>

\* The background task of a request starts; universal_search has located or
\* inserted the entity's row.
BackgroundRun ==
  /\ bgq # <<>>
  /\ MayRun(Head(bgq))
  /\ TriggerStart(Head(bgq).type, Head(bgq).id, TRUE, TRUE, TRUE)
  /\ bgq' = Tail(bgq)

\* Some other caller runs a pass directly, for an id that has a base record or
\* for one that has none.
DirectCall(type, e, data_ok, known) ==
  /\ Asked(e)
  /\ known \/ \A d \in OrchAdapters : e \notin store[d]
  /\ TriggerStart(type, e, data_ok, FALSE, known)
  /\ UNCHANGED bgq

\* The event loop runs a coroutine of the pass up to its first suspension.
CoStart(t, d) ==
  /\ batch.stage = "gathering"
  /\ t = CoTask(d)
  /\ d \in batch.coros
  /\ \A u \in Tasks : ad[u] # d
  /\ IF d = "bankruptcy" THEN BkStart(t, batch.id) ELSE DbStart(t, d, batch.id)

\* An adapter coroutine returns None unless it raised.
GatherItem(outcome) == IF outcome = "raise" THEN "exception" ELSE "None"

\* What the coroutines of the pass have returned or raised so far.
Settled_results ==
  {<<ad[t], GatherItem(res[t])>> : t \in {u \in Tasks : pc[u] = "done"}}

\* gather(..., return_exceptions=False) would return at the first exception.
GatherDone_failfast(coros, results) ==
  \/ \A d \in coros : \E r \in results : r[1] = d
  \/ \E r \in results : r[2] = "exception"

\* A join that waits for every coroutine to return a value.
GatherDone_strict(coros, results) ==
  \A d \in coros : <<d, "None">> \in results

\* gather(*tasks, return_exceptions=True) returns when every coroutine has
\* returned or raised; the exceptions are items of its result.
GatherDone(coros, results) ==
  \A d \in coros : \E r \in results : r[1] = d

\* run_until_complete returns, the loop is closed and the pass ends.
Gather ==
  /\ batch.stage = "gathering"
  /\ GatherDone(batch.coros, Settled_results)
  /\ batch' = [batch EXCEPT !.stage = "returned", !.results = Settled_results,
                            !.outcome = "ok"]
  /\ pc' = [t \in Tasks |-> "idle"]
  /\ ad' = [t \in Tasks |-> "none"]
  /\ ent' = [t \in Tasks |-> NoEntity]
  /\ res' = [t \in Tasks |-> "none"]
  /\ owed' = [t \in Tasks |-> 0]
  /\ cases' = NoCases
  /\ UNCHANGED <<ioVars, now, dbUp, keys, workload, cacheVars, req, bgq, dbVars,
                 monthly_usage, limVars, use_paid, nRuns>>

\* The loop of a pass runs one coroutine at a time and takes up another only
\* where the running one awaits: not between the database check and the
\* request, and not inside the loop over the cases (psycopg2 blocks).
Scheduled(t) == \A u \in Tasks : u # t => pc[u] \notin {"quota", "insert"}

\* A fresh process; the passes of a behaviour are about one type of entity, or
\* about none the orchestrator knows.
OrchInit ==
  /\ FreshInit
  /\ workload \in {Dispatch(type) : type \in EntityTypes}
  /\ CacheOff
  /\ OrchOff
  /\ rate_limiter = [s \in LimitedAdapters |-> NoLimiter]
  /\ bg = [s \in LimitedAdapters |-> 0]

NextOrch ==
  \/ \E type \in {"person", "business"}, e \in Entities, found \in BOOLEAN :
       Request(type, e, found)
  \/ Respond
  \/ BackgroundRun
  \/ \E type \in EntityTypes, e \in Entities, data_ok \in BOOLEAN :
       DirectCall(type, e, data_ok, TRUE)
  \/ \E t \in Tasks, d \in OrchAdapters : Scheduled(t) /\ FirstIdle(t) /\ CoStart(t, d)
  \/ \E t \in Tasks : DbQuotaCheck(t)
  \/ \E t \in Tasks, r \in QuotaResponses : Scheduled(t) /\ DbResponse(t, r)
  \/ \E t \in Tasks, r \in BkResponses : Scheduled(t) /\ BkResponse(t, r)
  \/ \E t \in Tasks : BkInsert(t)
  \/ \E t \in Tasks : Scheduled(t) /\ AdapterRaise(t)
  \/ Gather
  \/ DbToggle

SpecOrch == OrchInit /\ [][NextOrch]_vars

\* A step of the running pass: a coroutine starts or goes on, a request
\* settles (httpx timeout=10.0 / 15.0), a database call returns, gather ends.
PassStep ==
  \/ \E t \in Tasks, d \in OrchAdapters : Scheduled(t) /\ FirstIdle(t) /\ CoStart(t, d)
  \/ \E t \in Tasks : DbQuotaCheck(t)
  \/ \E t \in Tasks, r \in QuotaResponses : Scheduled(t) /\ DbResponse(t, r)
  \/ \E t \in Tasks, r \in BkResponses : Scheduled(t) /\ BkResponse(t, r)
  \/ \E t \in Tasks : BkInsert(t)
  \/ Gather

\* run_until_complete keeps the loop running while the pass has work to do.
OrchFairness == WF_vars(PassStep)

\* The passes that searches schedule, seen on their own.
NextSearch ==
  \/ \E type \in {"person", "business"}, e \in Entities, found \in BOOLEAN :
       Request(type, e, found)
  \/ Respond
  \/ BackgroundRun
  \/ PassStep
  \/ \E t \in Tasks : Scheduled(t) /\ AdapterRaise(t)
  \/ DbToggle

SpecSearch == OrchInit /\ [][NextSearch]_vars

\* Passes run directly, also for ids that have no base record.
NextDirect ==
  \/ \E type \in EntityTypes, e \in Entities, known \in BOOLEAN :
       DirectCall(type, e, TRUE, known)
  \/ PassStep
  \/ \E t \in Tasks : Scheduled(t) /\ AdapterRaise(t)
  \/ DbToggle

SpecDirect == OrchInit /\ [][NextDirect]_vars

SpecSearchFair == SpecSearch /\ OrchFairness

\* ------------------------------------------------ orchestrator: properties

\* C14: a pass never ends by raising to its caller, whatever the entity type,
\* the entity data and the failures of its adapters, quota checks and database.
C14_NoExceptionEscapes ==
  batch.outcome # "propagated"

\* A pass in which an adapter raised while the database was down has returned
\* normally.
C14_Witness ==
  /\ batch.stage = "returned"
  /\ batch.outcome = "ok"
  /\ ~dbUp
  /\ \E r \in batch.results : r[2] = "exception"

\* Outcomes of an adapter run that did not obtain its field.
FailedOutcomes == {"raise", "call_failed", "db_error", "quota_denied", "no_key"}

\* C15: a pass returns only when each of its coroutines has returned or
\* raised, and it returns normally; an adapter that obtained its field has
\* stored it, and the field of an adapter that failed is as absent as it was
\* when the pass began.
C15_PartialFailure ==
  /\ batch.stage = "returned" /\ batch.coros # {}
       => /\ {r[1] : r \in batch.results} = batch.coros
          /\ batch.outcome = "ok"
          /\ \A r \in batch.results :
               r[2] = "exception" /\ r[1] \notin batch.present
                 => batch.id \notin store[r[1]]
  /\ \A t \in Tasks :
       pc[t] = "done" /\ ad[t] \in batch.coros
         => /\ res[t] = "enriched" => batch.id \in store[ad[t]]
            /\ res[t] \in FailedOutcomes /\ ad[t] \notin batch.present
                 => batch.id \notin store[ad[t]]

\* A pass of two adapters has returned: one raised and its field is absent,
\* the other stored a field the entity did not have.
C15_Witness ==
  /\ batch.stage = "returned"
  /\ \E d, f \in batch.coros :
       /\ <<d, "exception">> \in batch.results
       /\ <<f, "None">> \in batch.results
       /\ batch.id \notin store[d]
       /\ f \notin batch.present /\ batch.id \in store[f]

\* The step in which the coroutine on task t starts.
CoStarted(t) == pc[t] = "idle" /\ pc'[t] # "idle"

\* C16: an adapter started for an entity whose field is in storage ends in
\* that very step, before any request is sent, and writes nothing.
C16_GapAnalysis ==
  [][\A t \in Tasks :
       CoStarted(t) /\ batch.id \in store[ad'[t]]
         => /\ pc'[t] = "done" /\ res'[t] \in {"already", "db_error"}
            /\ UNCHANGED <<store, api_cost_log, monthly_usage, cache>>]_vars

\* An adapter has found its field in storage and returned.
C16_Witness ==
  \E t \in Tasks :
    /\ pc[t] = "done" /\ res[t] = "already"
    /\ batch.id \in store[ad[t]]

\* C17: in a pass that follows a pass on the same entity and begins with every
\* dispatched field in storage, no coroutine sends a request.
C17_Idempotent ==
  [][batch.stage = "gathering" /\ batch.again /\ batch.coros \subseteq batch.present
       => \A t \in Tasks : pc'[t] = "call" => pc[t] = "call"]_vars

\* Such a second pass has run all its coroutines and returned.
C17_Witness ==
  /\ batch.stage = "returned"
  /\ batch.again
  /\ batch.coros # {} /\ batch.coros \subseteq batch.present
  /\ {r[1] : r \in batch.results} = batch.coros

\* C18 (as claimed): a pass creates the coroutine of exactly the adapters whose
\* field the entity lacks, all twelve person adapters for a person with nothing
\* stored.
C18_DispatchCoverage ==
  batch.stage = "gathering"
    => batch.coros =
         {d \in (IF batch.type = "person" THEN PersonAdapters ELSE Dispatch(batch.type)) :
            d \notin batch.present}

\* C19: while a request has not been answered, the pass it scheduled waits in
\* the background tasks; the coroutines of a background pass run only when the
\* response has gone out.
C19_NonBlocking ==
  /\ req.stage = "scheduled" => bgq # <<>>
  /\ batch.stage = "gathering" /\ batch.bg => req.stage = "responded"

\* The response has gone out and an adapter of the scheduled pass is waiting
\* for its provider.
C19_Witness ==
  /\ req.stage = "responded"
  /\ batch.stage = "gathering" /\ batch.bg
  /\ \E t \in Tasks : pc[t] = "call"

\* C20 (as claimed): no step of a source adapter changes the result cache,
\* durable storage or a quota counter.
C20_AdaptersReadOnly ==
  [][\A t \in Tasks :
       pc'[t] # pc[t] /\ (ad[t] \in LimitedAdapters \/ ad'[t] \in LimitedAdapters)
         => UNCHANGED <<cache, store, api_cost_log, monthly_usage>>]_vars

\* C21 (as claimed): when a fetch comes back empty (the source answered, with
\* nothing for the entity) and the run holds a client of a reachable cache, the
\* field is recorded under the run's key, so that a later run finds it.
C21_EmptyIsPresent ==
  [][\A t \in Tasks :
       pc[t] = "work" /\ pc'[t] = "done" /\ res'[t] = "empty" /\ client[t] /\ redisUp
         => cache'[ckey[t]] # NoValue]_vars

\* The step in which task t's run makes one INSERT of a bankruptcy case.
Inserted(t) == pc[t] = "insert" /\ cases' # cases

C23_StableShape ==
  invoked.adapter # "none"
    => output.tag =
         AdapterOutput(invoked.adapter, TRUE,
                       [kind |-> "ok", n |-> 1, m |-> 0, items_ok |-> TRUE]).tag

C25_UnknownEntityAborts ==
  [][batch.stage = "gathering" /\ ~batch.known
       => /\ \A t \in Tasks : pc'[t] = "call" => pc[t] = "call"
          /\ UNCHANGED <<store, api_cost_log>>]_vars

\* --------------------------------------------------------------- name forms

\* A string is a sequence of tokens: words, "," and " ".
Words == {"w1", "w2", "w3", "w4"}
NameWords == {w \in Words : \E n \in Names : w = <<"w1", "w2", "w3", "w4">>[n]}

\* The persons whose name is handed to an adapter: first and last name, with
\* or without a middle name.
NamedPersons ==
  [first : NameWords, middle : NameWords \cup {"none"}, last : NameWords]

NameForms == {"last_first", "first_last"}

\* The given names of a person as they are written.
Given(p) == IF p.middle = "none" THEN <<p.first>> ELSE <<p.first, " ", p.middle>>

\* "Last, First" and "First Last".
Written(form, p) ==
  IF form = "last_first" THEN <<p.last, ",", " ">> \o Given(p)
  ELSE Given(p) \o <<" ", p.last>>

\* Positions at which sep begins in str.
Occurrences(str, sep) ==
  {i \in 1..(Len(str) - Len(sep) + 1) : SubSeq(str, i, i + Len(sep) - 1) = sep}

\* `sep in str`
Contains(str, sep) == Occurrences(str, sep) # {}

\* str.split(sep)[0] and the rest after the first sep.
BeforeSep(str, sep) ==
  LET i == CHOOSE k \in Occurrences(str, sep) : \A j \in Occurrences(str, sep) : k <= j
  IN SubSeq(str, 1, i - 1)
AfterSep(str, sep) ==
  LET i == CHOOSE k \in Occurrences(str, sep) : \A j \in Occurrences(str, sep) : k <= j
  IN SubSeq(str, i + Len(sep), Len(str))

\* str.strip()
RECURSIVE Strip(_)
Strip(str) ==
  IF str = <<>> THEN str
  ELSE IF Head(str) = " " THEN Strip(Tail(str))
  ELSE IF str[Len(str)] = " " THEN Strip(SubSeq(str, 1, Len(str) - 1))
  ELSE str

\* str.split()[0] and str.split()[-1] of a string of words and blanks.
FirstWord(str) == LET t == Strip(str) IN IF t = <<>> THEN <<>> ELSE <<Head(t)>>
LastWord(str) == LET t == Strip(str) IN IF t = <<>> THEN <<>> ELSE <<t[Len(t)]>>

\* last, first = person_name.split(", ") if ", " in person_name
\*               else (person_name, "")
SplitCommaSpace(str) ==
  IF Contains(str, <<",", " ">>)
  THEN [first |-> AfterSep(str, <<",", " ">>), last |-> BeforeSep(str, <<",", " ">>)]
  ELSE [first |-> <<>>, last |-> str]

\* enrich_relatives_deep: parts = split(",") if "," in name else split()
RelativesNames(str) ==
  IF Contains(str, <<",">>)
  THEN [first |-> Strip(AfterSep(str, <<",">>)), last |-> Strip(BeforeSep(str, <<",">>))]
  ELSE [first |-> FirstWord(str), last |-> LastWord(str)]

\* enrich_bankruptcy: only a last name goes into the query.
BankruptcyNames(str) ==
  [first |-> <<>>,
   last |-> IF Contains(str, <<",">>) THEN Strip(BeforeSep(str, <<",">>)) ELSE str]

\* The adapters that take a person's name, and the first and last name each
\* puts into its outbound query.
NameAdapters == {"relatives_deep", "federal_cases", "bankruptcy", "evictions",
                 "employment_deep", "education", "professional_licenses"}
OutboundNames(a, str) ==
  CASE a = "relatives_deep" -> RelativesNames(str)
    [] a = "bankruptcy" -> BankruptcyNames(str)
    [] OTHER -> SplitCommaSpace(str)

\* An adapter is called with a person's name in one of the two forms.
NameCall(a, form, p) ==
  /\ invoked' = [adapter |-> a, form |-> form, person |-> p]
  /\ output' = [tag |-> "query", items |-> OutboundNames(a, Written(form, p))]
  /\ UNCHANGED <<cases, envVars, dbVars, monthly_usage, limVars, taskVars, nRuns, histVars>>

NextName ==
  \E a \in NameAdapters, form \in NameForms, p \in NamedPersons : NameCall(a, form, p)

SpecName == AdapterInit /\ [][NextName]_vars

\* The other way of writing a name.
OtherForm(form) == IF form = "last_first" THEN "first_last" ELSE "last_first"

\* C26 (as claimed): the first and last name an adapter puts into its query
\* are those it would put there had the name been written in the other form.
C26_NameNormalized ==
  output.tag = "query"
    => output.items =
         OutboundNames(invoked.adapter, Written(OtherForm(invoked.form), invoked.person))

\* The same for enrich_relatives_deep and names without a middle name (holds).
RelativesNormalizeTwoWordNames ==
  output.tag = "query" /\ invoked.adapter = "relatives_deep"
                       /\ invoked.person.middle = "none"
    => output.items =
         OutboundNames(invoked.adapter, Written(OtherForm(invoked.form), invoked.person))

\* C27 (as claimed): with k matching rows in the bulk files,
\* enrich_professional_licenses returns a list of exactly min(k, 50) records.
C27_LicensesCapped ==
  invoked.adapter = "professional_licenses" /\ invoked.reply.kind = "ok"
    => /\ output.tag = "list"
       /\ Len(output.items) = IF invoked.reply.n < LICENSE_CAP THEN invoked.reply.n
                               ELSE LICENSE_CAP

\* A coroutine of the pass sends its request.
RequestSent(t) == pc[t] # "call" /\ pc'[t] = "call"

\* A coroutine's call is found to have failed.
CallFailed(t) == res[t] # "call_failed" /\ res'[t] = "call_failed"

\* C28: within a pass an adapter sends its request at most once (no other
\* coroutine of the pass is or was that adapter's, and the sender has not
\* called before); a failed call ends the coroutine, and leaves the entity's
\* field missing in the database, where the next pass's check finds the gap.
C28_NoRetryInPass ==
  [][\A t \in Tasks :
       /\ RequestSent(t) =>
            /\ pc[t] \in {"idle", "quota"}
            /\ \A u \in Tasks : u # t => ad[u] # ad'[t]
       /\ CallFailed(t) =>
            /\ pc'[t] = "done"
            /\ ent[t] \notin store'[ad[t]]]_vars

\* A pass on the entity of the pass before it has sent the request for a field
\* that pass left missing.
C28_Witness ==
  /\ batch.stage = "gathering" /\ batch.again
  /\ \E t \in Tasks : pc[t] = "call" /\ ad[t] \notin batch.present /\ ent[t] = batch.id

\* C29 (as claimed): whatever the interleaving of the runs, the usage recorded
\* for the current month stays within the free-tier limit of each of the four
\* quota-tracked sources.
C29_QuotaNeverExceeded ==
  \A a \in QuotaAdapters : UsageNow(a) <= LimitOf(a)

\* The same statement for the three sources whose check turns runs away: two
\* runs that both pass the check one below the limit break it as well.
QuotaNeverExceededExceptBreach ==
  \A a \in QuotaAdapters \ {"breach"} : UsageNow(a) <= LimitOf(a)

\* The step in which a run of an in-memory-tracked adapter gets to its
\* _increment_monthly_usage(): enrich_relatives_deep with the parsed relatives
\* of a 200 reply, enrich_breach_history after a fetch that did not return None.
ReachedIncrement(t) ==
  \/ ad[t] = "relatives" /\ pc[t] = "call" /\ res'[t] = "list"
  \/ ad[t] = "breach" /\ pc[t] = "sleep" /\ pc'[t] = "done" /\ res[t] # "None"

\* C30: every run that gets to the increment raises the counter of its source
\* by exactly one, whatever the other runs in flight have done since it was
\* admitted; and while the period key stands the counter changes in no other
\* way.  So k runs that get there within a month raise it by exactly k.
C30_NoLostUpdates ==
  [][\A m \in MemAdapters :
       /\ \A t \in Tasks :
            ad[t] = m /\ ReachedIncrement(t)
              => monthly_usage'[m] = [monthly_usage[m] EXCEPT !.count = @ + 1]
       /\ monthly_usage'[m].month = monthly_usage[m].month
            => monthly_usage'[m].count - monthly_usage[m].count \in {0, 1}]_vars

\* Two runs admitted together one below the limit have both counted their
\* lookup: the counter stands one above the limit.
C30_Witness ==
  /\ monthly_usage["relatives"] =
       [count |-> RELATIVES_FREE_TIER_MONTHLY_LIMIT + 1, month |-> 0]
  /\ \E t \in Tasks : pc[t] = "done" /\ ad[t] = "relatives" /\ res[t] = "list"

\* Run t of enrich_person_contact has its request out while another run for
\* the same person, which also got past the already-in-DB check, has too.
Racing(t) ==
  /\ ad[t] = "contact" /\ pc[t] = "call"
  /\ \E u \in Tasks : u # t /\ ad[u] = "contact" /\ pc[u] = "call" /\ ent[u] = ent[t]

\* C31 (as claimed): when the call of a racing run ends, the person has at most
\* the one contact row of the source (the INSERT is ON CONFLICT DO NOTHING),
\* and api_cost_log has gained one entry for the call that was made.
C31_RaceOneRowOneEntryPerCall ==
  [][\A t \in Tasks :
       Racing(t) /\ pc'[t] = "done"
         => /\ store'["contact"] \subseteq store["contact"] \cup {ent[t]}
            /\ api_cost_log'["a_leads"][now] = api_cost_log["a_leads"][now] + 1]_vars

\* The part of it about the rows, and the entry for a call that stored one.
RaceOneRowEntryPerStoredCall ==
  [][\A t \in Tasks :
       Racing(t) /\ pc'[t] = "done"
         => /\ store'["contact"] \subseteq store["contact"] \cup {ent[t]}
            /\ res'[t] = "enriched"
                 => api_cost_log'["a_leads"][now] = api_cost_log["a_leads"][now] + 1]_vars

\* C32 (as claimed): a run whose fetch ends in an error returns {} (no value),
\* and leaves the cache and the month's usage count as they were.
C32_FailedCallNoEffect ==
  [][\A t \in Tasks :
       pc[t] = "work" /\ pc'[t] = "done" /\ res'[t] = "fetch_error"
         => /\ val'[t] = NoValue
            /\ cache' = cache
            /\ \A m \in MemAdapters :
                 (IF monthly_usage'[m].month = now THEN monthly_usage'[m].count ELSE 0)
                   = EffUsage(m)]_vars

\* The same statement for the three adapters other than enrich_relatives.
FailedCallNoEffectExceptRelatives ==
  [][\A t \in Tasks :
       pc[t] = "work" /\ pc'[t] = "done" /\ res'[t] = "fetch_error"
         /\ ad[t] # "relatives"
         => /\ val'[t] = NoValue
            /\ cache' = cache
            /\ \A m \in MemAdapters :
                 (IF monthly_usage'[m].month = now THEN monthly_usage'[m].count ELSE 0)
                   = EffUsage(m)]_vars

\* A step of a run of enrich_breach_history or enrich_relatives that is on its
\* way to a cached value: from the entry of the call to the lookup, and the
\* lookup that hits.
HitPath(t) ==
  /\ ad'[t] \in MemAdapters
  /\ \/ pc[t] = "idle" /\ pc'[t] = "cache_get"
     \/ pc[t] = "cache_get" /\ res'[t] = "cached"

\* C33: a run that returns a cached value gets to the lookup straight from
\* its entry and returns from the lookup, and neither step touches a usage
\* counter or a limiter; the run never holds a permit.
C33_HitConsumesNothing ==
  [][\A t \in Tasks :
       /\ HitPath(t) => UNCHANGED <<monthly_usage, rate_limiter, bg>>
       /\ ad'[t] \in MemAdapters /\ res'[t] = "cached" /\ res[t] # "cached"
            => pc[t] = "cache_get" /\ pc'[t] = "done"
       /\ ad'[t] \in MemAdapters /\ pc'[t] = "cache_get" /\ pc[t] # "cache_get"
            => pc[t] = "idle"]_vars

\* A run of one of the two adapters has returned a cached value in a process
\* whose counter an earlier fetch had raised, and the counter stands.
C33_Witness ==
  \E t \in Tasks :
    /\ ad[t] \in MemAdapters /\ pc[t] = "done" /\ res[t] = "cached"
    /\ monthly_usage[ad[t]] = [count |-> 1, month |-> 0]
    /\ rate_limiter[ad[t]] = Semaphore(Concurrency[ad[t]])

\* C34: a coroutine of enrich_person_contact, enrich_bankruptcy or
\* enrich_business_firmographics that starts while the store cannot be asked
\* ends in its first step, before the quota check and the request, and that
\* step writes no row and no usage entry.
C34_CheckFailureStops ==
  [][\A t \in Tasks :
       CoStarted(t) /\ ad'[t] \in OrchAdapters /\ ~dbUp
         => /\ pc'[t] = "done" /\ res'[t] = "db_error"
            /\ UNCHANGED <<store, api_cost_log, cases>>]_vars

\* Both coroutines of a person's pass have ended on the failed check, and
\* nothing is stored for the person.
C34_Witness ==
  /\ batch.stage = "gathering" /\ batch.type = "person"
  /\ \A d \in Dispatch("person") :
       \E t \in Tasks : ad[t] = d /\ pc[t] = "done" /\ res[t] = "db_error"
  /\ \A d \in OrchAdapters : batch.id \notin store[d]

\* The provider key an adapter sends with its request.
KeyOf(a) == IF a = "relatives" THEN "a_leads" ELSE SourceOf(a)
KeyedAdapters == {"contact", "firmographics", "relatives"}

\* C35: while its provider key is not configured, no run of a keyed adapter is
\* at or past its request (sending, queued for the limiter, or in the delay
\* after it), and no step stores a row for it, logs a lookup of its source or
\* touches its in-memory counter.
C35_NoKeyNoEffect ==
  /\ [](\A t \in Tasks :
          ad[t] \in KeyedAdapters /\ KeyOf(ad[t]) \notin keys
            => pc[t] \notin {"call", "acquire", "sleep"})
  /\ [][\A a \in KeyedAdapters :
          KeyOf(a) \notin keys
            => IF a = "relatives"
               THEN monthly_usage'[a] = monthly_usage[a]
               ELSE /\ store'[a] = store[a]
                    /\ api_cost_log'[SourceOf(a)] = api_cost_log[SourceOf(a)]]_vars

\* A run of enrich_person_contact got past the database check and the quota
\* check and ended at the key guard.
C35_Witness ==
  \E t \in Tasks :
    /\ ad[t] = "contact" /\ pc[t] = "done" /\ res[t] = "no_key"
    /\ "a_leads" \notin keys /\ dbUp

\* The adapters some coroutine of the running pass is, or was.
Ran == {ad[t] : t \in Tasks} \ {"none"}

\* C36: in a pass for a person only enrich_person_contact and enrich_bankruptcy
\* run, and both have by the time it returns; for a business that holds of
\* enrich_business_firmographics alone; a pass for any other type returns in
\* the step it begins in, with no coroutine, no row, no usage entry, counter,
\* limiter or cache entry changed.
C36_DispatchByType ==
  /\ [](batch.stage = "gathering" =>
          /\ batch.type = "person" => Ran \subseteq {"contact", "bankruptcy"}
          /\ batch.type = "business" => Ran \subseteq {"firmographics"}
          /\ batch.type \in {"person", "business"})
  /\ [](batch.stage = "returned" /\ batch.outcome = "ok" =>
          /\ batch.type = "person"
               => {r[1] : r \in batch.results} = {"contact", "bankruptcy"}
          /\ batch.type = "business"
               => {r[1] : r \in batch.results} = {"firmographics"}
          /\ batch.type \notin {"person", "business"} => batch.results = {})
  /\ [][batch'.pass # batch.pass /\ batch'.type \notin {"person", "business"}
          => /\ batch'.stage = "returned"
             /\ UNCHANGED <<store, api_cost_log, monthly_usage, rate_limiter, cache,
                            pc, ad, cases>>]_vars

\* A pass for a person has returned with the results of exactly its two
\* coroutines.
C36_Witness ==
  /\ batch.stage = "returned" /\ batch.outcome = "ok" /\ batch.type = "person"
  /\ {r[1] : r \in batch.results} = {"contact", "bankruptcy"}

\* C37 (as claimed): a call through cache_ttl that misses on a reachable cache
\* calls the wrapped function once (it goes through "work" once, to the
\* store), stores the result under its key and returns it; a call that hits
\* returns the entry of its own key, which a call with the same argument
\* stored, without going to the wrapped function.
C37_RoundTrip ==
  [][\A t \in Tasks :
       ad[t] = "report" =>
         /\ pc[t] = "work" => pc'[t] \in {"work", "cache_set"} \/ ~client[t]
         /\ pc[t] = "cache_set" /\ pc'[t] # "cache_set" /\ redisUp
              => /\ cache'[ckey[t]] = val[t]
                 /\ pc'[t] = "done" /\ res'[t] = "fetched" /\ val'[t] = val[t]
         /\ Looked(t) /\ res'[t] = "cached"
              => /\ val'[t] = cache[ckey[t]]
                 /\ val'[t].owner = ent[t]]_vars

====
